---- MODULE Spec2Model ----
(***************************************************************************)
(* The image-annotation canvas (ImageDrawingCanvas): viewport (zoom, pan), *)
(* snapshot history (undo, redo), pointer-driven tools, text overlay and   *)
(* export.  Every handler of the component is one action; React renders    *)
(* between two events, so a handler reads the state left by the previous   *)
(* one.  Numbers that the code keeps as JavaScript doubles are modelled as *)
(* exact rationals <<n, d>> (d > 0, lowest terms): rounding is not         *)
(* modelled.                                                               *)
(***************************************************************************)
EXTENDS Integers, Sequences, FiniteSets, TLC

VARIABLES
    ctx,            \* TRUE once img.onload has stored the 2d context
    dimensions,     \* [width, height]: natural size of the image (0,0 before load)
    container,      \* [w, h]: clientWidth / clientHeight of the viewport div
    zoom,           \* rational
    pan,            \* [x, y] rationals, screen pixels
    isPanning,
    lastPanPoint,   \* [x, y] screen position of the last pan event
    history,        \* sequence of snapshots (surfaces)
    redoStack,      \* sequence of snapshots, next redo first
    tool,
    isDrawing,
    startPos,       \* world point or Null
    snapshot,       \* surface captured at pointer-down or Null
    textInput,      \* [isVisible, x, y, value], and byRuler: a ruler gesture opened it
    surface,        \* the canvas bitmap: one pixel for each sample point
    description,    \* caption typed next to the save buttons
    saves,          \* handleSave calls awaiting img.onload
    exported,       \* finished exports, in order
    mounted,        \* FALSE once the host has removed the component
    objectUrls,     \* [created, revoked]: the object URLs of the image file
    host,           \* [annotatedImageUrl, annotationNote, calls]: what onSave left
    requests,       \* number of handleSave calls made on a loaded canvas
    lastEvent,      \* the last handler that ran, with what it was given
    limits,         \* [viewOps, commits, saves]: how far a run may go
    viewOps,        \* number of viewport events handled (bounded)
    commits,        \* number of saveState calls (bounded)
    evicted,        \* TRUE once saveState has shifted an entry out
    run             \* the undo-all / redo-all scenario: [phase, undos, redos, final, log]

vars == <<ctx, dimensions, container, zoom, pan, isPanning, lastPanPoint,
          history, redoStack, tool, isDrawing, startPos, snapshot, textInput,
          surface, description, saves, exported, mounted, objectUrls, host,
          requests, lastEvent, limits,
          viewOps, commits,
          evicted, run>>

viewVars == <<zoom, pan>>
panVars == <<isPanning, lastPanPoint>>
histVars == <<history, redoStack, commits, evicted>>
gestureVars == <<isDrawing, startPos, snapshot>>
saveVars == <<description, saves, exported, mounted, objectUrls, host, requests>>
loadVars == <<ctx, dimensions, container, limits>>

Null == [null |-> TRUE]

-----------------------------------------------------------------------------
(* Exact rational arithmetic standing in for JavaScript numbers.           *)

Abs(n) == IF n < 0 THEN -n ELSE n

RECURSIVE Gcd(_, _)
Gcd(a, b) == IF b = 0 THEN a ELSE Gcd(b, a % b)

Norm(n, d) ==
    LET s == IF d < 0 THEN -1 ELSE 1
        g == Gcd(Abs(n), Abs(d))
    IN  <<(s * n) \div g, (s * d) \div g>>

R(n) == <<n, 1>>
Frac(n, d) == Norm(n, d)
Lcm(a, b) == (a \div Gcd(a, b)) * b
RAdd(a, b) ==
    LET l == Lcm(a[2], b[2])
    IN  Norm(a[1] * (l \div a[2]) + b[1] * (l \div b[2]), l)
RNeg(a) == <<-a[1], a[2]>>
RSub(a, b) == RAdd(a, RNeg(b))
RMul(a, b) ==
    LET x == Norm(a[1], b[2])
        y == Norm(b[1], a[2])
    IN  Norm(x[1] * y[1], x[2] * y[2])
RDiv(a, b) == RMul(a, Norm(b[2], b[1]))
RLt(a, b) == RSub(a, b)[1] < 0
RLe(a, b) == RSub(a, b)[1] <= 0
RMin(a, b) == IF RLt(b, a) THEN b ELSE a
RMax(a, b) == IF RLt(a, b) THEN b ELSE a

Half(r) == RDiv(r, R(2))

Pt(x, y) == [x |-> x, y |-> y]
IPt(x, y) == [x |-> R(x), y |-> R(y)]

-----------------------------------------------------------------------------
(* Program constants.                                                      *)

MinZoom == Frac(1, 10)
MaxZoom == R(5)
MaxHistory == 20
FitMargin == 40
LoadMaxHeight == 600
WheelMilli == 1000     \* scaleAmount = -deltaY * 0.001 = -deltaY / 1000
ButtonMilli == 100     \* the zoom buttons call handleZoom(+-0.1)

(* Tool settings the model keeps at their useState defaults.               *)
color == "#EF4444"
lineWidth == 3
opacity == R(1)
isFilled == FALSE

Tools == {"pen", "highlighter", "line", "arrow", "rect", "circle", "text",
          "eraser", "pan"}

-----------------------------------------------------------------------------
(* The drawing surface, sampled at a few world points.                     *)

CellPos == <<IPt(100, 100), IPt(200, 100), IPt(300, 100), IPt(300, 200)>>
Cells == DOMAIN CellPos

Transparent == [kind |-> "none"]
EmptySurface == [c \in Cells |-> Transparent]

VSub(a, b) == Pt(RSub(a.x, b.x), RSub(a.y, b.y))
Dot(u, v) == RAdd(RMul(u.x, v.x), RMul(u.y, v.y))
Cross(u, v) == RSub(RMul(u.x, v.y), RMul(u.y, v.x))
Zero == R(0)

\* c lies on the straight line drawn from a to b; a zero-length line is
\* pruned before stroking and covers nothing.
OnSegment(c, a, b) ==
    /\ a # b
    /\ Cross(VSub(b, a), VSub(c, a)) = Zero
    /\ RLe(Zero, Dot(VSub(c, a), VSub(b, a)))
    /\ RLe(Dot(VSub(c, a), VSub(b, a)), Dot(VSub(b, a), VSub(b, a)))

\* A canvas path: a sequence of subpaths, each a sequence of points.
BeginPath == <<>>
MoveTo(path, p) == Append(path, <<p>>)
LineTo(path, p) ==
    IF path = <<>> THEN <<<<p>>>>
    ELSE [path EXCEPT ![Len(path)] = Append(@, p)]

StrokeCells(path) ==
    {c \in Cells : \E i \in 1..Len(path) : \E j \in 1..(Len(path[i]) - 1) :
        OnSegment(CellPos[c], path[i][j], path[i][j + 1])}

\* applyStyles: what the next stroke paints with.
applyStyles(t) ==
    IF t = "highlighter"
        THEN [color |-> color, alpha |-> Frac(3, 10), width |-> 20, op |-> "source-over"]
    ELSE IF t = "eraser"
        THEN [color |-> color, alpha |-> R(1), width |-> lineWidth * 4, op |-> "destination-out"]
    ELSE [color |-> color, alpha |-> opacity, width |-> lineWidth, op |-> "source-over"]

PaintPixel(old, style) ==
    IF style.op = "destination-out" THEN
        IF style.alpha = R(1) THEN Transparent
        ELSE [kind |-> "faded", under |-> old, alpha |-> style.alpha]
    ELSE IF style.alpha = R(1) THEN [kind |-> "stroke", color |-> style.color]
    ELSE [kind |-> "blend", under |-> old, color |-> style.color, alpha |-> style.alpha]

Paint(surf, cells, style) ==
    [c \in Cells |-> IF c \in cells THEN PaintPixel(surf[c], style) ELSE surf[c]]

Stroke(surf, path, style) == Paint(surf, StrokeCells(path), style)

-----------------------------------------------------------------------------
(* Shapes of the tools, as the sample points they cover.                   *)

Norm2(u) == Dot(u, u)

\* Math.atan2(0, 0) is 0: a zero-length gesture points along +x.
Direction(a, b) == IF a = b THEN IPt(1, 0) ELSE VSub(b, a)

\* drawTHeads: a tick of half-length 8 + lineWidth across each end.
THeadCells(a, b) ==
    LET d == Direction(a, b)
        headSize == 8 + lineWidth
    IN  {c \in Cells : \E e \in {a, b} :
            /\ Dot(VSub(CellPos[c], e), d) = Zero
            /\ RLe(Norm2(VSub(CellPos[c], e)), R(headSize * headSize))}

\* drawArrow: the two head lines leave the tip at 30 degrees from the shaft.
ArrowHeadCells(a, b) ==
    LET d == Direction(a, b)
        headLength == 15 + lineWidth
    IN  {c \in Cells :
            LET v == VSub(b, CellPos[c]) IN
            /\ RLe(Norm2(v), R(headLength * headLength))
            /\ \/ CellPos[c] = b
               \/ /\ RLt(Zero, Dot(v, d))
                  /\ RMul(R(4), RMul(Dot(v, d), Dot(v, d)))
                        = RMul(R(3), RMul(Norm2(v), Norm2(d)))}

RectCells(a, b) ==
    LET p1 == Pt(b.x, a.y)
        p2 == Pt(a.x, b.y)
    IN  {c \in Cells :
            \/ OnSegment(CellPos[c], a, p1) \/ OnSegment(CellPos[c], p1, b)
            \/ OnSegment(CellPos[c], b, p2) \/ OnSegment(CellPos[c], p2, a)}

RectFillCells(a, b) ==
    {c \in Cells : /\ a.x # b.x /\ a.y # b.y
                   /\ RLe(RMin(a.x, b.x), CellPos[c].x)
                   /\ RLe(CellPos[c].x, RMax(a.x, b.x))
                   /\ RLe(RMin(a.y, b.y), CellPos[c].y)
                   /\ RLe(CellPos[c].y, RMax(a.y, b.y))}

CircleCells(a, b) ==
    {c \in Cells : a # b /\ Norm2(VSub(CellPos[c], a)) = Norm2(VSub(b, a))}

CircleFillCells(a, b) ==
    {c \in Cells : a # b /\ RLe(Norm2(VSub(CellPos[c], a)), Norm2(VSub(b, a)))}

FillStyle(style) == [style EXCEPT !.alpha = RMul(opacity, Frac(3, 10))]

\* What one handleMouseMove leaves on the canvas: the shape tools start from
\* the snapshot, the freehand tools from the surface as it is.
FreehandTools == {"pen", "highlighter", "eraser"}
ShapeTools == {"line", "arrow", "rect", "circle"}

DrawPreviewTrail(t, surf, snap, a, b) ==
    LET style == applyStyles(t)
    IN  IF t \in FreehandTools THEN Stroke(surf, LineTo(BeginPath, b), style)
        ELSE IF t = "line" THEN
            Paint(Stroke(surf, LineTo(MoveTo(BeginPath, a), b), style),
                  THeadCells(a, b), style)
        ELSE IF t = "rect" THEN Paint(surf, RectCells(a, b), style)
        ELSE IF t = "circle" THEN Paint(surf, CircleCells(a, b), style)
        ELSE Paint(Stroke(surf, LineTo(MoveTo(BeginPath, a), b), style),
                   ArrowHeadCells(a, b), style)

\* the drawing branch of handleMouseMove: putImageData(snapshot) for the
\* shape tools, beginPath, applyStyles, then the tool's drawing calls
DrawPreview(t, surf, snap, a, b) ==
    LET base == IF t \in ShapeTools THEN snap ELSE surf
        style == applyStyles(t)
        filled(cells) == IF isFilled THEN Paint(base, cells, FillStyle(style)) ELSE base
    IN  IF t \in FreehandTools THEN Stroke(base, LineTo(BeginPath, b), style)
        ELSE IF t = "line" THEN
            Paint(Stroke(base, LineTo(MoveTo(BeginPath, a), b), style),
                  THeadCells(a, b), style)
        ELSE IF t = "rect" THEN Paint(filled(RectFillCells(a, b)), RectCells(a, b), style)
        ELSE IF t = "circle" THEN
            Paint(filled(CircleFillCells(a, b)), CircleCells(a, b), style)
        ELSE IF t = "arrow" THEN
            Paint(Stroke(base, LineTo(MoveTo(BeginPath, a), b), style),
                  ArrowHeadCells(a, b), style)
        ELSE base

\* (distancePx / 38).toFixed(1) + " cm": tenths is the nearest tenth.
MaxTenths == 200
Tenths(a, b) ==
    LET d2 == RMul(Norm2(VSub(b, a)), R(100))
    IN  CHOOSE t \in 0..MaxTenths :
            /\ t = 0 \/ RLe(R((2 * t - 1) * 19 * (2 * t - 1) * 19), d2)
            /\ RLt(d2, R((2 * t + 1) * 19 * (2 * t + 1) * 19))

Measurement(a, b) ==
    ToString(Tenths(a, b) \div 10) \o "." \o ToString(Tenths(a, b) % 10) \o " cm"

MidpointAtEnd(a, b) == b

\* midX = (startPos.x + x) / 2, midY = (startPos.y + y) / 2
Midpoint(a, b) == Pt(Half(RAdd(a.x, b.x)), Half(RAdd(a.y, b.y)))

\* value.trim() is empty
Blank(v) == v \in {"", " "}

DrawTextAtOrigin(surf, ti) ==
    [c \in Cells |-> IF CellPos[c] = Pt(R(0), R(0))
                     THEN [kind |-> "text", color |-> color, value |-> ti.value]
                     ELSE surf[c]]

\* strokeText and fillText of textInput.value at (textInput.x, textInput.y)
DrawText(surf, ti) ==
    [c \in Cells |-> IF CellPos[c] = Pt(ti.x, ti.y)
                     THEN [kind |-> "text", color |-> color, value |-> ti.value]
                     ELSE surf[c]]

-----------------------------------------------------------------------------
(* Input sets.                                                             *)

ImageSizes == {<<800, 600>>, <<1600, 1200>>, <<16000, 12000>>}
ContainerSizes == {<<840, 640>>}
WheelDeltas == {-1000, 1000, -5000}
ZoomDeltas == {ButtonMilli, -ButtonMilli, 7000, -7000}
ScreenPoints == {IPt(400, 300), IPt(0, 0)}
Captions == {"", "nodulo"}
MaxViewOps == 3
MaxSaves == 2

\* lastEvent names the handler where a property asks for it (load, zoom,
\* wheel, resetView, undo, redo, clear, draw, exported, cancel, unmount); the
\* other pointer, key and toolbar handlers are all "input".  saved: saveState
\* ran.  draw carries the pointer's position and the one before, clear the
\* surface it found.
NoEvent == [op |-> "none", saved |-> FALSE]
Ev(op, saved) == [op |-> op, saved |-> saved]

Start(lim) ==
    /\ limits = lim
    /\ ctx = FALSE
    /\ dimensions = [width |-> 0, height |-> 0]
    /\ container \in {[w |-> s[1], h |-> s[2]] : s \in ContainerSizes}
    /\ zoom = R(1)
    /\ pan = IPt(0, 0)
    /\ isPanning = FALSE
    /\ lastPanPoint = IPt(0, 0)
    /\ history = <<>>
    /\ redoStack = <<>>
    /\ tool = "pen"
    /\ isDrawing = FALSE
    /\ startPos = Null
    /\ snapshot = Null
    /\ textInput = [isVisible |-> FALSE, x |-> R(0), y |-> R(0), value |-> "",
                    byRuler |-> FALSE]
    /\ surface = EmptySurface
    /\ description = ""
    /\ saves = <<>>
    /\ exported = <<>>
    /\ mounted = TRUE
    \* the initialization effect has run: URL.createObjectURL(imageFile)
    /\ objectUrls = [created |-> {1}, revoked |-> {}]
    /\ host = [annotatedImageUrl |-> Null, annotationNote |-> Null, calls |-> 0]
    /\ requests = 0
    /\ lastEvent = NoEvent
    /\ viewOps = 0
    /\ commits = 0
    /\ evicted = FALSE
    \* the pointer starts outside the canvas container
    /\ run = [phase |-> "act", undos |-> 0, redos |-> 0, final |-> Null, log |-> <<>>,
              pointer |-> "out"]

-----------------------------------------------------------------------------
(* Initialization: img.onload.                                             *)

\* scaleFit of img.onload: min(maxWidth / w, maxHeight / h), maxHeight = 600.
LoadScaleFit(w, h, cw) ==
    RMin(Frac(cw - FitMargin, w), Frac(LoadMaxHeight, h))

\* setZoom is called only when the image has to shrink.
LoadZoom(z, w, h, cw) ==
    IF RLt(LoadScaleFit(w, h, cw), R(1)) THEN LoadScaleFit(w, h, cw) ELSE z

LoadPan(w, h, cw, ch) ==
    LET sf == LoadScaleFit(w, h, cw) IN
    IF RLt(sf, R(1))
        THEN Pt(Half(RSub(R(cw), RMul(R(w), sf))), Half(RSub(R(ch), RMul(R(h), sf))))
        ELSE Pt(RMax(Half(R(cw - w)), Zero), RMax(Half(R(ch - h)), Zero))

InitialHistoryNone(emptyData) == <<>>

\* setHistory([emptyData])
InitialHistory(emptyData) == <<emptyData>>

OnLoad(w, h) ==
    /\ mounted
    /\ ~ctx
    /\ dimensions' = [width |-> w, height |-> h]
    /\ zoom' = LoadZoom(zoom, w, h, container.w)
    /\ pan' = LoadPan(w, h, container.w, container.h)
    /\ ctx' = TRUE
    /\ history' = InitialHistory(surface)
    /\ lastEvent' = Ev("load", FALSE)
    /\ UNCHANGED <<container, limits, panVars, redoStack, tool, gestureVars, textInput,
                   surface, saveVars, viewOps, commits, evicted>>

-----------------------------------------------------------------------------
(* Zoom and pan.                                                           *)

Clamp(z) == RMin(RMax(MinZoom, z), MaxZoom)

handleZoomNoFloor(z, milli) == RMin(RAdd(z, Frac(milli, 1000)), MaxZoom)

\* handleZoom(delta): delta in thousandths.
handleZoom(z, milli) == Clamp(RAdd(z, Frac(milli, 1000)))

ZoomButton(milli) ==
    /\ mounted
    /\ viewOps < limits.viewOps
    /\ ~textInput.isVisible
    /\ zoom' = handleZoom(zoom, milli)
    /\ viewOps' = viewOps + 1
    /\ lastEvent' = [op |-> "zoom", saved |-> FALSE, zoom0 |-> zoom]
    /\ UNCHANGED <<loadVars, pan, panVars, history, redoStack, tool, gestureVars,
                   textInput, surface, saveVars, commits, evicted>>

\* handleWheel: the new zoom and the pan that keeps the world point under
\* the mouse where it is.
WheelZoom(z, deltaY) == Clamp(RAdd(z, Frac(-deltaY, WheelMilli)))

WheelPanAxisNoDivide(z, newZoom, panAxis, mouseAxis) ==
    RSub(mouseAxis, RMul(RSub(mouseAxis, panAxis), newZoom))

WheelPanAxis(z, newZoom, panAxis, mouseAxis) ==
    LET world == RDiv(RSub(mouseAxis, panAxis), z)
    IN  RSub(mouseAxis, RMul(world, newZoom))

WheelPan(z, newZoom, pn, mouse) ==
    Pt(WheelPanAxis(z, newZoom, pn.x, mouse.x),
       WheelPanAxis(z, newZoom, pn.y, mouse.y))

handleWheel(deltaY, mouse) ==
    /\ mounted
    /\ viewOps < limits.viewOps
    /\ zoom' = WheelZoom(zoom, deltaY)
    /\ pan' = WheelPan(zoom, WheelZoom(zoom, deltaY), pan, mouse)
    /\ viewOps' = viewOps + 1
    /\ lastEvent' = [op |-> "wheel", saved |-> FALSE, deltaY |-> deltaY,
                     mouse |-> mouse, zoom0 |-> zoom, pan0 |-> pan,
                     prev |-> IF lastEvent.op = "wheel"
                              THEN [lastEvent EXCEPT !.prev = NoEvent]
                              ELSE NoEvent]
    /\ UNCHANGED <<loadVars, panVars, history, redoStack, tool, gestureVars,
                   textInput, surface, saveVars, commits, evicted>>

\* resetView: fit to the container, never above 1.
ResetScaleFit(w, h, cw, ch) ==
    RMin(RMin(Frac(cw - FitMargin, w), Frac(ch - FitMargin, h)), R(1))

resetView ==
    /\ mounted
    /\ viewOps < limits.viewOps
    /\ ~textInput.isVisible
    /\ dimensions.width # 0
    /\ LET sf == ResetScaleFit(dimensions.width, dimensions.height,
                               container.w, container.h)
       IN  /\ zoom' = sf
           /\ pan' = Pt(Half(RSub(R(container.w), RMul(R(dimensions.width), sf))),
                        Half(RSub(R(container.h), RMul(R(dimensions.height), sf))))
    /\ viewOps' = viewOps + 1
    /\ lastEvent' = Ev("resetView", FALSE)
    /\ UNCHANGED <<loadVars, panVars, history, redoStack, tool, gestureVars,
                   textInput, surface, saveVars, commits, evicted>>

\* getPos: screen to world, (ClientPos - PanOffset) / ZoomScale.
WorldAt(mouse, z, pn) == Pt(RDiv(RSub(mouse.x, pn.x), z), RDiv(RSub(mouse.y, pn.y), z))
getPos(mouse) == WorldAt(mouse, zoom, pan)

\* The screen position over a world point.
ScreenOf(w) == Pt(RAdd(RMul(w.x, zoom), pan.x), RAdd(RMul(w.y, zoom), pan.y))

-----------------------------------------------------------------------------
(* History.                                                                *)

\* the updater saveState gives setHistory
PushSnapshotDropNewest(hist, imageData) ==
    LET newHist == Append(hist, imageData)
    IN  IF Len(newHist) > MaxHistory THEN SubSeq(newHist, 1, MaxHistory) ELSE newHist

PushSnapshotUncapped(hist, imageData) == Append(hist, imageData)
PushSnapshotTwice(hist, imageData) == Append(Append(hist, imageData), imageData)

\* setHistory(prev => [...prev, imageData], dropping the oldest beyond 20)
PushSnapshot(hist, imageData) ==
    LET newHist == Append(hist, imageData)
    IN  IF Len(newHist) > MaxHistory THEN Tail(newHist) ELSE newHist

RedoAfterSaveKept(redo) == redo

\* setRedoStack([])
RedoAfterSave(redo) == <<>>

\* saveState with the canvas holding imageData; a no-op without a context.
\* A limit of 0 leaves the number of commits unbounded and uncounted.
saveState(imageData) ==
    IF ctx THEN
        /\ limits.commits = 0 \/ commits < limits.commits
        /\ history' = PushSnapshot(history, imageData)
        /\ redoStack' = RedoAfterSave(redoStack)
        /\ commits' = IF limits.commits = 0 THEN 0 ELSE commits + 1
        /\ evicted' = (evicted \/ Len(history) + 1 > MaxHistory)
    ELSE UNCHANGED histVars

UndoRedoStack(hist, redo) == <<hist[Len(hist)]>> \o redo
UndoHistoryDropFirst(hist) == Tail(hist)
UndoHistory(hist) == SubSeq(hist, 1, Len(hist) - 1)
UndoSurfaceOldest(hist) == hist[1]

\* ctx.putImageData(previous, 0, 0), previous = history[history.length - 2]
UndoSurface(hist) == hist[Len(hist) - 1]

handleUndo ==
    /\ mounted
    /\ ~textInput.isVisible
    /\ IF Len(history) <= 1 \/ ~ctx
       THEN UNCHANGED <<history, redoStack, surface>>
       ELSE /\ redoStack' = UndoRedoStack(history, redoStack)
            /\ history' = UndoHistory(history)
            /\ surface' = UndoSurface(history)
    /\ lastEvent' = Ev("undo", FALSE)
    /\ UNCHANGED <<loadVars, viewVars, panVars, tool, gestureVars, textInput,
                   saveVars, viewOps, commits, evicted>>

RedoNext(redo) == redo[1]
RedoRest(redo) == Tail(redo)
RedoHistory(hist, next) == Append(hist, next)

handleRedo ==
    /\ mounted
    /\ ~textInput.isVisible
    /\ IF redoStack = <<>> \/ ~ctx
       THEN UNCHANGED <<history, redoStack, surface>>
       ELSE /\ redoStack' = RedoRest(redoStack)
            /\ history' = RedoHistory(history, RedoNext(redoStack))
            /\ surface' = RedoNext(redoStack)
    /\ lastEvent' = Ev("redo", FALSE)
    /\ UNCHANGED <<loadVars, viewVars, panVars, tool, gestureVars, textInput,
                   saveVars, viewOps, commits, evicted>>

ClearedSurface(surf) == [c \in Cells |-> Transparent]

clearCanvas ==
    /\ mounted
    /\ ~textInput.isVisible
    /\ IF ctx
       THEN /\ surface' = ClearedSurface(surface)
            /\ saveState(ClearedSurface(surface))
       ELSE UNCHANGED <<surface, histVars>>
    \* ghost: the surface the click found
    /\ lastEvent' = [op |-> "clear", saved |-> ctx, before |-> surface]
    /\ UNCHANGED <<loadVars, viewVars, panVars, tool, gestureVars, textInput,
                   saveVars, viewOps>>

setTool(t) ==
    /\ mounted
    /\ ~textInput.isVisible
    /\ tool' = t
    /\ lastEvent' = Ev("input", FALSE)
    /\ UNCHANGED <<loadVars, viewVars, panVars, histVars, gestureVars, textInput,
                   surface, saveVars, viewOps>>

-----------------------------------------------------------------------------
(* Text overlay.                                                           *)

CommitDiscards == ~ctx \/ ~textInput.isVisible \/ Blank(textInput.value)

DiscardSavesNever(t) == FALSE
DiscardSavesAlways(t) == TRUE

\* if (tool === 'line') saveState(): what decides whether discarded text
\* still commits
DiscardSaves(t) == t = "line"

CommitSaves == IF CommitDiscards THEN DiscardSaves(tool) /\ ctx ELSE TRUE

\* commitText: changes textInput, surface and the history.
commitText ==
    IF CommitDiscards THEN
        /\ textInput' = [textInput EXCEPT !.isVisible = FALSE]
        /\ surface' = surface
        /\ IF DiscardSaves(tool) THEN saveState(surface) ELSE UNCHANGED histVars
    ELSE
        /\ surface' = DrawText(surface, textInput)
        /\ saveState(DrawText(surface, textInput))
        /\ textInput' = [textInput EXCEPT !.isVisible = FALSE, !.value = ""]

\* onChange of the overlay input
typeText(v) ==
    /\ mounted
    /\ textInput.isVisible
    /\ textInput' = [textInput EXCEPT !.value = v]
    /\ lastEvent' = Ev("input", FALSE)
    /\ UNCHANGED <<loadVars, viewVars, panVars, histVars, tool, gestureVars,
                   surface, saveVars, viewOps>>

\* handleInputKeyDown, Enter
keyEnter ==
    /\ mounted
    /\ textInput.isVisible
    /\ commitText
    /\ lastEvent' = Ev("input", CommitSaves)
    /\ UNCHANGED <<loadVars, viewVars, panVars, tool, gestureVars, saveVars, viewOps>>

\* handleInputKeyDown, Escape
keyEscape ==
    /\ mounted
    /\ textInput.isVisible
    /\ textInput' = [textInput EXCEPT !.isVisible = FALSE]
    /\ IF DiscardSaves(tool) THEN saveState(surface) ELSE UNCHANGED histVars
    /\ lastEvent' = Ev("input", DiscardSaves(tool) /\ ctx)
    /\ UNCHANGED <<loadVars, viewVars, panVars, tool, gestureVars, surface,
                   saveVars, viewOps>>

\* onBlur of the overlay input: the focus leaves it for a toolbar control.
inputBlur ==
    /\ mounted
    /\ textInput.isVisible
    /\ commitText
    /\ lastEvent' = Ev("input", CommitSaves)
    /\ UNCHANGED <<loadVars, viewVars, panVars, tool, gestureVars, saveVars, viewOps>>

-----------------------------------------------------------------------------
(* Pointer handlers.                                                       *)

handleMouseDown(button, mouse) ==
    /\ mounted
    /\ IF tool = "pan" \/ button = 1 THEN
            /\ isPanning' = TRUE
            /\ lastPanPoint' = mouse
            \* the click takes the focus from an open overlay: its onBlur runs
            /\ IF textInput.isVisible THEN commitText
               ELSE UNCHANGED <<textInput, surface, histVars>>
            /\ lastEvent' = Ev("input", textInput.isVisible /\ CommitSaves)
            /\ UNCHANGED gestureVars
       ELSE IF ~ctx THEN
            /\ lastEvent' = Ev("input", FALSE)
            /\ UNCHANGED <<panVars, textInput, surface, histVars, gestureVars>>
       ELSE IF textInput.isVisible THEN
            /\ commitText
            /\ lastEvent' = Ev("input", CommitSaves)
            /\ UNCHANGED <<panVars, gestureVars>>
       ELSE IF tool = "text" THEN
            /\ textInput' = [isVisible |-> TRUE, x |-> getPos(mouse).x,
                             y |-> getPos(mouse).y, value |-> "",
                             byRuler |-> FALSE]
            /\ lastEvent' = Ev("input", FALSE)
            /\ UNCHANGED <<panVars, surface, histVars, gestureVars>>
       ELSE
            /\ isDrawing' = TRUE
            /\ startPos' = getPos(mouse)
            /\ snapshot' = surface
            /\ lastEvent' = Ev("input", FALSE)
            /\ UNCHANGED <<panVars, textInput, surface, histVars>>
    /\ UNCHANGED <<loadVars, viewVars, tool, saveVars, viewOps>>

PanByAbsolute(pn, mouse, last) == Pt(RSub(mouse.x, last.x), RSub(mouse.y, last.y))

\* setPan(prev => ({ x: prev.x + deltaX, y: prev.y + deltaY }))
PanBy(pn, mouse, last) ==
    Pt(RAdd(pn.x, RSub(mouse.x, last.x)), RAdd(pn.y, RSub(mouse.y, last.y)))

handleMouseMove(mouse) ==
    /\ mounted
    /\ IF isPanning THEN
            /\ viewOps < limits.viewOps
            /\ pan' = PanBy(pan, mouse, lastPanPoint)
            /\ lastPanPoint' = mouse
            /\ viewOps' = viewOps + 1
            /\ UNCHANGED surface
       ELSE IF ~isDrawing \/ ~ctx \/ startPos = Null \/ snapshot = Null THEN
            UNCHANGED <<pan, lastPanPoint, viewOps, surface>>
       ELSE
            /\ surface' = DrawPreview(tool, surface, snapshot, startPos, getPos(mouse))
            /\ UNCHANGED <<pan, lastPanPoint, viewOps>>
    \* ghost: where the drawing branch was asked to draw, and where the
    \* pointer was before (the start point on the first move of a gesture)
    /\ lastEvent' = IF ~isPanning /\ isDrawing /\ ctx /\ startPos # Null /\ snapshot # Null
                        THEN [op |-> "draw", saved |-> FALSE, at |-> getPos(mouse),
                              from |-> IF lastEvent.op = "draw" THEN lastEvent.at
                                       ELSE startPos]
                        ELSE Ev("input", FALSE)
    /\ UNCHANGED <<loadVars, zoom, isPanning, histVars, tool, gestureVars,
                   textInput, saveVars>>

\* onMouseUp and onMouseLeave
handleMouseUp(mouse) ==
    /\ mounted
    /\ IF isPanning THEN
            /\ isPanning' = FALSE
            /\ lastEvent' = Ev("input", FALSE)
            /\ UNCHANGED <<isDrawing, textInput, histVars>>
       ELSE IF ~isDrawing \/ ~ctx \/ startPos = Null THEN
            /\ lastEvent' = Ev("input", FALSE)
            /\ UNCHANGED <<isPanning, isDrawing, textInput, histVars>>
       ELSE
            /\ isDrawing' = FALSE
            /\ IF tool = "line" THEN
                    /\ textInput' = [isVisible |-> TRUE,
                                     x |-> Midpoint(startPos, getPos(mouse)).x,
                                     y |-> Midpoint(startPos, getPos(mouse)).y,
                                     value |-> Measurement(startPos, getPos(mouse)),
                                     byRuler |-> TRUE]
                    /\ UNCHANGED histVars
               ELSE /\ saveState(surface)
                    /\ UNCHANGED textInput
            /\ lastEvent' = Ev("input", tool # "line")
            /\ UNCHANGED isPanning
    /\ UNCHANGED <<loadVars, viewVars, lastPanPoint, tool, startPos, snapshot,
                   surface, saveVars, viewOps>>

-----------------------------------------------------------------------------
(* Export.                                                                 *)

ImagePixel(c) == [kind |-> "image", at |-> c]

\* source-over of the annotation canvas on the image
Over(bottom, top) ==
    IF top = Transparent THEN bottom ELSE [kind |-> "over", top |-> top, bottom |-> bottom]

\* the annotation canvas drawn as the viewport shows it
FlattenDisplayed(dims, surf) ==
    [width |-> dims.width, height |-> dims.height,
     pixels |-> [c \in Cells |->
        Over(ImagePixel(c), IF zoom = R(1) THEN surf[c] ELSE Transparent)]]

\* the bitmap of tempCanvas when toDataURL is called
Flatten(dims, surf) ==
    [width |-> dims.width, height |-> dims.height,
     pixels |-> [c \in Cells |-> Over(ImagePixel(c), surf[c])]]

setDescription(v) ==
    /\ mounted
    /\ ~textInput.isVisible
    /\ description' = v
    /\ lastEvent' = Ev("input", FALSE)
    /\ UNCHANGED <<loadVars, viewVars, panVars, histVars, tool, gestureVars,
                   textInput, surface, saves, exported, mounted, objectUrls,
                   host, requests, viewOps>>

\* the cleanup of the initialization effect: URL.revokeObjectURL(url)
CleanupKeeps(urls) == urls
Cleanup(urls) == [urls EXCEPT !.revoked = urls.created]

\* handleAnnotationSave of the host
OnSaveTwice(h, dataUrl, note) ==
    [annotatedImageUrl |-> dataUrl, annotationNote |-> note, calls |-> h.calls + 2]
OnSave(h, dataUrl, note) ==
    [annotatedImageUrl |-> dataUrl, annotationNote |-> note, calls |-> h.calls + 1]

\* what handleSave tells the user of a failure: it has no catch and no
\* onerror, and its only alert follows onSave
FailuresShown == 0

\* handleSave up to the await: the temporary canvas is sized and the image
\* is asked for again.  tCtx: whether getContext('2d') gave a context; with
\* none the handler returns and nothing else happens.
handleSave(action, tCtx) ==
    /\ mounted
    /\ ~textInput.isVisible
    /\ dimensions.width # 0
    /\ requests < limits.saves
    /\ requests' = requests + 1
    /\ saves' = IF tCtx
                \* requested (ghost): the surface when the button was clicked
                THEN Append(saves, [action |-> action, description |-> description,
                                    dims |-> dimensions, failed |-> FALSE,
                                    requested |-> surface])
                ELSE saves
    /\ lastEvent' = Ev("input", FALSE)
    /\ UNCHANGED <<loadVars, viewVars, panVars, histVars, tool, gestureVars,
                   textInput, surface, description, exported, mounted,
                   objectUrls, host, viewOps>>

RemoveAt(seq, i) == SubSeq(seq, 1, i - 1) \o SubSeq(seq, i + 1, Len(seq))

\* handleSave after the await: img.onload of the reloaded image has run.
saveImageLoaded(i) ==
    /\ mounted
    /\ i \in 1..Len(saves)
    /\ ~saves[i].failed
    /\ exported' = Append(exported,
            [action |-> saves[i].action, caption |-> saves[i].description,
             out |-> Flatten(saves[i].dims, surface),
             surface |-> surface, zoom |-> zoom, pan |-> pan])
    /\ saves' = RemoveAt(saves, i)
    \* onSave: the host shows the result instead of the canvas, which
    \* unmounts and runs its effect cleanup
    /\ IF saves[i].action = "attach"
       THEN /\ host' = OnSave(host, Flatten(saves[i].dims, surface),
                              saves[i].description)
            /\ mounted' = FALSE
            /\ objectUrls' = Cleanup(objectUrls)
       ELSE UNCHANGED <<host, mounted, objectUrls>>
    /\ lastEvent' = Ev("exported", FALSE)
    /\ UNCHANGED <<loadVars, viewVars, panVars, histVars, tool, gestureVars,
                   textInput, surface, description, requests, viewOps>>

\* the reloaded image fails to load: img has no onerror, so the promise
\* handleSave awaits never settles
saveImageError(i) ==
    /\ mounted
    /\ i \in 1..Len(saves)
    /\ ~saves[i].failed
    /\ saves' = [saves EXCEPT ![i].failed = TRUE]
    /\ lastEvent' = Ev("input", FALSE)
    /\ UNCHANGED <<loadVars, viewVars, panVars, histVars, tool, gestureVars,
                   textInput, surface, description, exported, mounted,
                   objectUrls, host, requests, viewOps>>

\* the Cancelar button: onCancel = resetAnnotation, the host drops the
\* component
cancel ==
    /\ mounted
    /\ ~textInput.isVisible
    /\ mounted' = FALSE
    /\ objectUrls' = Cleanup(objectUrls)
    /\ lastEvent' = Ev("cancel", FALSE)
    /\ UNCHANGED <<loadVars, viewVars, panVars, histVars, tool, gestureVars,
                   textInput, surface, description, saves, exported, host,
                   requests, viewOps>>

\* the host removes the component for any other reason (handleClear, the
\* view is left)
unmount ==
    /\ mounted
    /\ mounted' = FALSE
    /\ objectUrls' = Cleanup(objectUrls)
    /\ lastEvent' = Ev("unmount", FALSE)
    /\ UNCHANGED <<loadVars, viewVars, panVars, histVars, tool, gestureVars,
                   textInput, surface, description, saves, exported, host,
                   requests, viewOps>>

-----------------------------------------------------------------------------
(* Specifications.                                                         *)

MaxRunCommits == 21

NoLimits == [viewOps |-> 0, commits |-> 0, saves |-> 0]

\* The viewport: loading, zoom buttons, wheel, reset and dragging with the
\* middle button.
ViewLoad == UNCHANGED run /\ \E s \in ImageSizes : OnLoad(s[1], s[2])
ViewZoomButton == UNCHANGED run /\ \E d \in ZoomDeltas : ZoomButton(d)
ViewWheel == UNCHANGED run /\ \E d \in WheelDeltas : \E m \in ScreenPoints : handleWheel(d, m)
ViewReset == UNCHANGED run /\ resetView
ViewDown == UNCHANGED run /\ \E m \in ScreenPoints : handleMouseDown(1, m)
ViewMove == UNCHANGED run /\ \E m \in ScreenPoints : handleMouseMove(m)
ViewUp == UNCHANGED run /\ \E m \in ScreenPoints : handleMouseUp(m)

InitView == Start([NoLimits EXCEPT !.viewOps = MaxViewOps])
NextView ==
    \/ ViewLoad \/ ViewZoomButton \/ ViewWheel \/ ViewReset
    \/ ViewDown \/ ViewMove \/ ViewUp
SpecView == InitView /\ [][NextView]_vars

\* The history store under any number of commits: an 800 x 600 image, the
\* pen and the rectangle dragged between two sample points, undo and redo.
CornerA == CellPos[1]
CornerB == CellPos[4]
HistTools == {"rect"}

HistLoad == UNCHANGED run /\ OnLoad(800, 600)
HistTool == UNCHANGED run /\ \E t \in HistTools \ {tool} : setTool(t)
HistDown == UNCHANGED run /\ ~isDrawing /\ handleMouseDown(0, ScreenOf(CornerA))
HistMove == UNCHANGED run /\ isDrawing /\ handleMouseMove(ScreenOf(CornerB))
HistUp == UNCHANGED run /\ isDrawing /\ handleMouseUp(ScreenOf(CornerB))
HistUndo == UNCHANGED run /\ handleUndo
HistRedo == UNCHANGED run /\ handleRedo

InitHistory == Start(NoLimits)
NextHistory ==
    \/ HistLoad \/ HistTool \/ HistDown \/ HistMove \/ HistUp
    \/ HistUndo \/ HistRedo
SpecHistory == InitHistory /\ [][NextHistory]_vars

\* The undo-all / redo-all scenario: N commits on a freshly loaded canvas,
\* then N calls of handleUndo, then N calls of handleRedo.
Logged(A) ==
    /\ run.phase = "act"
    /\ A
    /\ run' = IF lastEvent'.saved THEN [run EXCEPT !.log = Append(@, surface')] ELSE run

RunLoad == Logged(OnLoad(800, 600))
RunTool == Logged(\E t \in HistTools \ {tool} : setTool(t))
RunDown == Logged(~isDrawing /\ handleMouseDown(0, ScreenOf(CornerA)))
RunMove == Logged(isDrawing /\ handleMouseMove(ScreenOf(CornerB)))
RunUp == Logged(isDrawing /\ handleMouseUp(ScreenOf(CornerB)))

RunUndo ==
    /\ ctx /\ ~isDrawing
    /\ run.phase \in {"act", "undo"}
    /\ run.undos < commits
    /\ handleUndo
    /\ run' = [run EXCEPT !.phase = "undo", !.undos = @ + 1,
                          !.final = IF run.phase = "act" THEN surface ELSE @]

RunRedo ==
    /\ run.phase \in {"undo", "redo"}
    /\ run.undos = commits
    /\ run.redos < commits
    /\ handleRedo
    /\ run' = [run EXCEPT !.phase = "redo", !.redos = @ + 1]

InitUndoRedo == Start([NoLimits EXCEPT !.commits = MaxRunCommits])
NextUndoRedo ==
    \/ RunLoad \/ RunTool \/ RunDown \/ RunMove \/ RunUp \/ RunUndo \/ RunRedo
SpecUndoRedo == InitUndoRedo /\ [][NextUndoRedo]_vars

\* The whole canvas on an 800 x 600 image: the pen, rectangle, ruler and
\* text tools, the text overlay,
\* undo, redo and clear, for a few commits.
MaxCommits == 2
DrawTools == {"pen", "rect", "line", "text"}
DownPoints == {ScreenOf(CellPos[1])}
MovePoints == {ScreenOf(CellPos[3])}
DrawButtons == {0}
DrawTexts == {"", "QSE"}

\* The canvas binds onMouseLeave to handleMouseUp, so with one mouse button
\* the pointer reaches the toolbar only after the gesture has ended.
Load == UNCHANGED run /\ OnLoad(800, 600)
SelectTool == UNCHANGED run /\ ~isDrawing /\ \E t \in DrawTools \ {tool} : setTool(t)
MouseDown == UNCHANGED run /\ \E b \in DrawButtons : \E m \in DownPoints : handleMouseDown(b, m)
MouseMove == UNCHANGED run /\ \E m \in MovePoints : handleMouseMove(m)
MouseUp == UNCHANGED run /\ \E m \in MovePoints : handleMouseUp(m)
TypeText == UNCHANGED run /\ \E v \in DrawTexts \ {textInput.value} : typeText(v)
KeyEnter == UNCHANGED run /\ keyEnter
KeyEscape == UNCHANGED run /\ keyEscape
Blur == UNCHANGED run /\ inputBlur
Undo == UNCHANGED run /\ ~isDrawing /\ handleUndo
Redo == UNCHANGED run /\ ~isDrawing /\ handleRedo
Clear == UNCHANGED run /\ ~isDrawing /\ clearCanvas

Init == Start([NoLimits EXCEPT !.commits = MaxCommits])
Next ==
    \/ Load \/ SelectTool \/ MouseDown \/ MouseMove \/ MouseUp
    \/ TypeText \/ KeyEnter \/ KeyEscape \/ Blur
    \/ Undo \/ Redo \/ Clear
Spec == Init /\ [][Next]_vars

\* The mouse buttons and the pointer's whereabouts: the left and the right
\* button draw rectangles, the middle button drags the view, and the toolbar is clicked
\* only after the pointer has left the canvas container (onMouseLeave).
MaxPointerViewOps == 1
MaxPointerCommits == 1
PointerButtons == {0, 1, 2}
PointerPoints == {ScreenOf(CellPos[1]), ScreenOf(CellPos[4])}

Inside(A) == A /\ run' = [run EXCEPT !.pointer = "in"]
Outside(A) == run.pointer = "out" /\ A /\ UNCHANGED run

PtrLoad == UNCHANGED run /\ OnLoad(800, 600)
PtrTool == Outside(setTool("rect"))
PtrDown == Inside(\E b \in PointerButtons : \E m \in PointerPoints : handleMouseDown(b, m))
PtrMove == Inside(\E m \in PointerPoints : handleMouseMove(m))
PtrUp == Inside(\E m \in PointerPoints : handleMouseUp(m))
PtrLeave ==
    /\ run.pointer = "in"
    /\ \E m \in PointerPoints : handleMouseUp(m)
    /\ run' = [run EXCEPT !.pointer = "out"]
PtrUndo == Outside(handleUndo)
PtrClear == Outside(clearCanvas)

InitPointer ==
    Start([viewOps |-> MaxPointerViewOps, commits |-> MaxPointerCommits, saves |-> 0])
NextPointer ==
    \/ PtrLoad \/ PtrTool \/ PtrDown \/ PtrMove \/ PtrUp \/ PtrLeave
    \/ PtrUndo \/ PtrClear
SpecPointer == InitPointer /\ [][NextPointer]_vars

\* Erasing: rectangles are drawn and the eraser is dragged over the sample
\* points of the surface.
MaxEraseCommits == 2
EraseTools == {"rect", "eraser"}
ErasePoints == {ScreenOf(CellPos[c]) : c \in Cells}

EraseLoad == UNCHANGED run /\ OnLoad(800, 600)
EraseTool == UNCHANGED run /\ ~isDrawing /\ \E t \in EraseTools \ {tool} : setTool(t)
EraseDown == UNCHANGED run /\ ~isDrawing /\ \E m \in ErasePoints : handleMouseDown(0, m)
EraseMove == UNCHANGED run /\ isDrawing /\ \E m \in ErasePoints : handleMouseMove(m)
EraseUp == UNCHANGED run /\ isDrawing /\ \E m \in ErasePoints : handleMouseUp(m)

InitErase == Start([NoLimits EXCEPT !.commits = MaxEraseCommits])
NextErase == EraseLoad \/ EraseTool \/ EraseDown \/ EraseMove \/ EraseUp
SpecErase == InitErase /\ [][NextErase]_vars

\* Gestures: every drawing tool dragged with the left button between the
\* sample points of the surface, and the overlay a ruler gesture opens.
MaxGestureCommits == 2
GestureTools == FreehandTools \cup ShapeTools
GesturePoints == {ScreenOf(CellPos[c]) : c \in {1, 4}}

GestLoad == UNCHANGED run /\ OnLoad(800, 600)
GestTool == UNCHANGED run /\ ~isDrawing /\ \E t \in GestureTools \ {tool} : setTool(t)
GestDown ==
    /\ UNCHANGED run /\ ~isDrawing /\ commits < limits.commits
    /\ \E m \in GesturePoints : handleMouseDown(0, m)
GestMove == UNCHANGED run /\ isDrawing /\ \E m \in GesturePoints : handleMouseMove(m)
GestUp == UNCHANGED run /\ isDrawing /\ \E m \in GesturePoints : handleMouseUp(m)
GestEnter == UNCHANGED run /\ keyEnter
GestEscape == UNCHANGED run /\ keyEscape

InitGesture == Start([NoLimits EXCEPT !.commits = MaxGestureCommits])
NextGesture ==
    \/ GestLoad \/ GestTool \/ GestDown \/ GestMove \/ GestUp
    \/ GestEnter \/ GestEscape
SpecGesture == InitGesture /\ [][NextGesture]_vars

\* Export: one rectangle tool, the zoom buttons and the wheel, and saves
\* whose image reload completes at any later moment.
MaxExportViewOps == 1
MaxExportCommits == 1
ExportDeltas == {ButtonMilli, -ButtonMilli}
ExportWheel == {-1000}
ExportActions == {"download", "attach"}

ExportLoad == UNCHANGED run /\ OnLoad(800, 600)
ExportTool == UNCHANGED run /\ tool # "rect" /\ setTool("rect")
ExportDown == UNCHANGED run /\ ~isDrawing /\ handleMouseDown(0, ScreenOf(CornerA))
ExportMove == UNCHANGED run /\ isDrawing /\ handleMouseMove(ScreenOf(CornerB))
ExportUp == UNCHANGED run /\ isDrawing /\ handleMouseUp(ScreenOf(CornerB))
ExportZoomButton == UNCHANGED run /\ ~isDrawing /\ \E d \in ExportDeltas : ZoomButton(d)
ExportWheelZoom == UNCHANGED run /\ \E d \in ExportWheel : handleWheel(d, IPt(400, 300))
ExportSave == UNCHANGED run /\ ~isDrawing /\ \E a \in ExportActions : handleSave(a, TRUE)
ExportImageLoaded == UNCHANGED run /\ \E i \in 1..Len(saves) : saveImageLoaded(i)

InitExport ==
    Start([viewOps |-> MaxExportViewOps, commits |-> MaxExportCommits, saves |-> MaxSaves])
NextExport ==
    \/ ExportLoad \/ ExportTool \/ ExportDown \/ ExportMove \/ ExportUp
    \/ ExportZoomButton \/ ExportWheelZoom
    \/ ExportSave \/ ExportImageLoaded
SpecExport == InitExport /\ [][NextExport]_vars

\* A session from mount to unmount: one rectangle, the caption, saves that
\* may find no offscreen context or an image that fails to reload, cancel
\* and removal by the host.
SessionLoad == UNCHANGED run /\ OnLoad(800, 600)
SessionTool == UNCHANGED run /\ tool # "rect" /\ setTool("rect")
SessionDown == UNCHANGED run /\ ~isDrawing /\ handleMouseDown(0, ScreenOf(CornerA))
SessionMove == UNCHANGED run /\ isDrawing /\ handleMouseMove(ScreenOf(CornerB))
SessionUp == UNCHANGED run /\ isDrawing /\ handleMouseUp(ScreenOf(CornerB))
SessionCaption ==
    UNCHANGED run /\ ~isDrawing /\ \E v \in Captions \ {description} : setDescription(v)
SessionSave ==
    UNCHANGED run /\ ~isDrawing /\ \E a \in ExportActions : \E t \in BOOLEAN : handleSave(a, t)
SessionImageLoaded == UNCHANGED run /\ \E i \in 1..Len(saves) : saveImageLoaded(i)
SessionImageError == UNCHANGED run /\ \E i \in 1..Len(saves) : saveImageError(i)
SessionCancel == UNCHANGED run /\ ~isDrawing /\ cancel
SessionUnmount == UNCHANGED run /\ unmount

InitSession ==
    Start([viewOps |-> 0, commits |-> MaxExportCommits, saves |-> MaxSaves])
NextSession ==
    \/ SessionLoad \/ SessionTool \/ SessionDown \/ SessionMove \/ SessionUp
    \/ SessionCaption \/ SessionSave \/ SessionImageLoaded \/ SessionImageError
    \/ SessionCancel \/ SessionUnmount
SpecSession == InitSession /\ [][NextSession]_vars

\* The browser fires the load event of an image that can be loaded: a
\* pending save whose image reloads is eventually resumed.
SpecSessionFair == SpecSession /\ WF_vars(SessionImageLoaded)

-----------------------------------------------------------------------------
(* Properties.                                                             *)

InRange(z) == RLe(MinZoom, z) /\ RLe(z, MaxZoom)

\* C6: once the image has loaded, zoom lies in [0.1, 5.0] in every state.
C6_ZoomAlwaysInRange == ctx => InRange(zoom)

\* C7: after every handleZoom call the zoom lies in [0.1, 5.0], whatever
\* the zoom was before and whatever the delta.
C7_ZoomButtonClamps == lastEvent.op = "zoom" => InRange(zoom)

C7_Witness ==
    /\ lastEvent.op = "zoom"
    /\ RLt(lastEvent.zoom0, MinZoom)
    /\ zoom = MinZoom

\* C8: after a wheel zoom at screen point p, the world point under p is the
\* one that was under p before, also when the zoom was clamped.
C8_WheelKeepsAnchor ==
    lastEvent.op = "wheel" =>
        WorldAt(lastEvent.mouse, zoom, pan)
            = WorldAt(lastEvent.mouse, lastEvent.zoom0, lastEvent.pan0)

WheelWasClamped ==
    /\ lastEvent.op = "wheel"
    /\ RAdd(lastEvent.zoom0, Frac(-lastEvent.deltaY, WheelMilli)) # zoom

C8_Witness ==
    /\ ctx
    /\ WheelWasClamped
    /\ zoom # lastEvent.zoom0
    /\ pan # lastEvent.pan0

\* C9: from zoom 1, a wheel zoom to 2 at p and then a wheel zoom back to 1
\* at the same p leave pan as it was.
ZoomedInAndBack ==
    /\ lastEvent.op = "wheel"
    /\ lastEvent.prev.op = "wheel"
    /\ lastEvent.prev.zoom0 = R(1)
    /\ lastEvent.zoom0 = R(2)
    /\ zoom = R(1)
    /\ lastEvent.prev.mouse = lastEvent.mouse

C9_ZoomRoundTrip == ZoomedInAndBack => pan = lastEvent.prev.pan0

C9_Witness ==
    /\ ctx
    /\ ZoomedInAndBack
    /\ lastEvent.pan0 # lastEvent.prev.pan0
    /\ pan = lastEvent.prev.pan0

\* C1 (as claimed): N commits on a fresh canvas, then N undos, leave the
\* initial empty surface, and N redos after that restore the final surface,
\* for every N.
UndoneAll == run.phase = "undo" /\ run.undos = commits
RedoneAll == run.phase = "redo" /\ run.redos = commits

C1_UndoAllRedoAll ==
    /\ UndoneAll => surface = EmptySurface
    /\ RedoneAll => surface = run.final

\* C1 (amended): below 20 commits N undos reach the initial empty surface;
\* from 20 commits on they stop at the oldest snapshot kept, the surface
\* after commit N - 19; N redos then restore the final surface in both cases.
C1_UndoAllRedoAllBounded ==
    /\ UndoneAll /\ commits < MaxHistory => surface = EmptySurface
    /\ UndoneAll /\ commits >= MaxHistory =>
            surface = run.log[commits - (MaxHistory - 1)]
    /\ RedoneAll => surface = run.final

C1_Witness ==
    /\ RedoneAll
    /\ commits >= MaxHistory
    /\ surface = run.final
    /\ surface # EmptySurface
    /\ \E i \in 1..Len(run.log) : run.log[i] # run.final

\* C2: the history never holds more than 20 snapshots, and a commit made
\* with 20 entries drops entry 0 and puts the new snapshot last.
C2_HistoryBounded ==
    /\ [](Len(history) <= MaxHistory)
    /\ [][lastEvent'.saved /\ Len(history) = MaxHistory =>
            history' = Append(Tail(history), surface')]_vars

C2_Witness ==
    /\ evicted
    /\ lastEvent.saved
    /\ Len(history) = MaxHistory
    /\ history[1] # history[MaxHistory]

\* C3: right after any committed action the redo stack is empty, whatever
\* it held before, and a redo that follows a committed action changes
\* nothing.
C3_RedoEmptyAfterCommit ==
    /\ [](lastEvent.saved => redoStack = <<>>)
    /\ [][lastEvent.saved /\ lastEvent'.op = "redo" =>
            UNCHANGED <<history, redoStack, surface>>]_vars

C3_Witness ==
    /\ lastEvent.saved
    /\ redoStack = <<>>
    /\ ~evicted
    /\ Len(history) < commits + 1

\* C4: once the image has loaded the history holds at least one entry, and
\* an undo with exactly one entry changes neither the history, the redo
\* stack nor the surface.
C4_HistoryNeverEmpty ==
    /\ [](ctx => Len(history) >= 1)
    /\ [][lastEvent'.op = "undo" /\ Len(history) = 1 =>
            UNCHANGED <<history, redoStack, surface>>]_vars

C4_Witness ==
    /\ ctx
    /\ lastEvent.op = "undo"
    /\ Len(history) = 1
    /\ commits > 0
    /\ redoStack # <<>>

\* How an entry gets into the history: saveState appends the surface the
\* action has just left (dropping entry 0 at the bound), undo removes the
\* last entry, redo puts back the entry undone last.
HistoryStep ==
    \/ history' = history
    \/ ~ctx /\ history' = <<surface'>>
    \/ lastEvent'.saved /\ Len(history) < MaxHistory /\ history' = Append(history, surface')
    \/ lastEvent'.saved /\ Len(history) = MaxHistory
            /\ history' = Append(Tail(history), surface')
    \/ lastEvent'.op = "undo" /\ history' = SubSeq(history, 1, Len(history) - 1)
            /\ redoStack' = <<history[Len(history)]>> \o redoStack
    \/ lastEvent'.op = "redo" /\ redoStack # <<>>
            /\ history' = Append(history, redoStack[1])

\* C5 (as claimed): entry 0 of the history is the initial empty snapshot and
\* every later entry is a surface captured right after a committed action.
C5_FirstEntryInitial ==
    /\ [](ctx => history[1] = EmptySurface)
    /\ [][HistoryStep]_vars

\* C5 (amended): entry 0 is the initial empty snapshot until a commit made
\* with 20 entries evicts it, and a post-commit surface from then on; every
\* later entry is a surface captured right after a committed action.
C5_FirstEntryInitialUntilEvicted ==
    /\ [](ctx /\ ~evicted => history[1] = EmptySurface)
    /\ [][HistoryStep]_vars

C5_Witness ==
    /\ evicted
    /\ history[1] # EmptySurface
    /\ Len(history) = MaxHistory
    /\ redoStack = <<>>

\* C10: what is exported depends on the image and the surface only: two
\* exports of the same surface give the same bitmap whatever zoom and pan
\* were, and the bitmap has the native dimensions of the image.
C10_ExportIgnoresViewport ==
    \A i, j \in 1..Len(exported) :
        /\ exported[i].out.width = dimensions.width
        /\ exported[i].out.height = dimensions.height
        /\ exported[i].surface = exported[j].surface =>
                exported[i].out = exported[j].out

C10_Witness ==
    \E i, j \in 1..Len(exported) :
        /\ exported[i].surface = exported[j].surface
        /\ exported[i].surface # EmptySurface
        /\ exported[i].zoom # exported[j].zoom
        /\ exported[i].pan # exported[j].pan
        /\ exported[i].out = exported[j].out
        /\ exported[i].out.width = 800

\* C11: committing an overlay a ruler gesture opened, with empty or
\* whitespace-only text, adds exactly one history entry; that entry is the
\* surface with the measurement line and no text, and the surface stays as
\* it is.  The tool at that moment is the ruler: the overlay holds the focus,
\* so reaching any tool button blurs it, and the blur commits it first.
RulerOverlayBlank ==
    /\ ctx
    /\ textInput.isVisible
    /\ textInput.byRuler
    /\ Blank(textInput.value)

C12_ClickCommitsThenActs ==
    [][ctx /\ textInput.isVisible /\ MouseDown =>
        \E m \in DownPoints :
            IF tool = "text"
            THEN /\ textInput'.isVisible
                 /\ textInput'.x = getPos(m).x
                 /\ textInput'.y = getPos(m).y
            ELSE /\ isDrawing'
                 /\ startPos' = getPos(m)]_vars

\* C13: Escape closes the overlay and draws no text; an overlay opened by a
\* ruler gesture leaves one new history entry holding the surface with the
\* line, an overlay opened by the text tool leaves surface, history and redo
\* stack as they were.
C13_EscapeDiscardsText ==
    /\ [](textInput.isVisible => (textInput.byRuler <=> tool = "line"))
    /\ [][ctx /\ textInput.isVisible /\ KeyEscape =>
            /\ ~textInput'.isVisible
            /\ surface' = surface
            /\ IF textInput.byRuler
               THEN /\ Len(history') = Len(history) + 1
                    /\ history'[Len(history')] = surface
               ELSE UNCHANGED <<history, redoStack>>]_vars

C13_Witness ==
    /\ lastEvent.saved
    /\ ~textInput.isVisible
    /\ textInput.byRuler
    /\ ~Blank(textInput.value)
    /\ Len(history) = 2
    /\ history[2] = surface
    /\ surface[2].kind = "stroke"
    /\ \A c \in Cells : surface[c].kind # "text"

\* C14: before the image has loaded, a pointer-down, move, up / leave or
\* wheel event changes nothing: zoom, pan, the panning and drawing flags,
\* history, redo stack, overlay and surface stay as they are.
C14_InertBeforeLoad ==
    [][~ctx /\ (ViewWheel \/ ViewDown \/ ViewMove \/ ViewUp) =>
        UNCHANGED <<zoom, pan, isPanning, isDrawing, history, redoStack,
                    textInput, surface>>]_vars

\* C15: the object URL made for the image is released exactly when the
\* session ends (attach, cancel or removal by the host): none is released
\* while the component is mounted and none stays unreleased afterwards.
C15_UrlReleasedAtEnd ==
    /\ objectUrls.created # {}
    /\ mounted => objectUrls.revoked = {}
    /\ ~mounted => objectUrls.revoked = objectUrls.created

C15_Witness ==
    /\ ~mounted
    /\ lastEvent.op = "exported"
    /\ host.calls = 1
    /\ objectUrls.created = {1}
    /\ objectUrls.revoked = {1}

\* C16: clear makes every pixel of the surface transparent and pushes exactly
\* one history entry (that transparent surface), and an undo that directly
\* follows the clear puts back the surface exactly as the clear found it.
C16_ClearUndoRestores ==
    /\ [][clearCanvas /\ ctx =>
            /\ \A c \in Cells : surface'[c] = Transparent
            /\ history' = IF Len(history) < MaxHistory
                              THEN Append(history, surface')
                              ELSE Append(Tail(history), surface')]_vars
    /\ [][lastEvent.op = "clear" /\ lastEvent.saved /\ handleUndo =>
            surface' = lastEvent.before]_vars

\* C17: while the view is being dragged, every pointer move adds to pan the
\* screen displacement since the previous pan point, takes the pointer's
\* position as the new pan point, and changes nothing else: not the surface,
\* the history, the redo stack, the zoom, the overlay or the state of a
\* drawing gesture that was in progress when the drag began.
C17_PanMoveOnlyPans ==
    [][isPanning /\ PtrMove =>
        /\ \E m \in PointerPoints :
              /\ pan'.x = RAdd(pan.x, RSub(m.x, lastPanPoint.x))
              /\ pan'.y = RAdd(pan.y, RSub(m.y, lastPanPoint.y))
              /\ lastPanPoint' = m
        /\ UNCHANGED <<surface, history, redoStack, zoom, textInput, isPanning,
                       isDrawing, startPos, snapshot, tool>>]_vars

\* a drag of the view that began in the middle of a rectangle gesture has
\* moved the view and the preview is still on the surface
C17_Witness ==
    /\ isPanning /\ isDrawing /\ viewOps > 0
    /\ surface # EmptySurface
    /\ pan # LoadPan(800, 600, container.w, container.h)

\* C18: an eraser gesture that passes over a painted pixel of the annotation
\* surface leaves that pixel fully transparent: after the eraser was dragged
\* to a sample point, the pixel there is transparent.
C18_EraserClears ==
    lastEvent.op = "draw" /\ tool = "eraser" =>
        \A c \in Cells : CellPos[c] = lastEvent.at => surface[c] = Transparent

\* C18, the part that holds: no pixel of the surface is ever painted
\* opaque by the eraser.
C18_EraserNeverPaints ==
    [][tool = "eraser" /\ EraseMove =>
          \A c \in Cells : surface'[c] \in {surface[c], Transparent}]_vars

\* C19: when a save completes, the bitmap handed over is the source image at
\* its native size with every non-transparent pixel of the annotation surface
\* drawn over it.  An attach save calls the host's onSave once, with that
\* bitmap and the caption of the request (which may be empty); a download
\* save produces the same bitmap and leaves the host untouched.  onSave has
\* been called as many times as attach saves have completed.
C19_AttachCallsOnSaveOnce ==
    /\ [](host.calls = Cardinality({i \in 1..Len(exported) : exported[i].action = "attach"}))
    /\ [][\A i \in 1..Len(saves) : saveImageLoaded(i) =>
            LET flat == [width |-> dimensions.width, height |-> dimensions.height,
                         pixels |-> [c \in Cells |->
                            IF surface[c] = Transparent
                                THEN ImagePixel(c)
                                ELSE [kind |-> "over", top |-> surface[c],
                                      bottom |-> ImagePixel(c)]]]
                done == exported'[Len(exported')]
            IN  /\ done.out = flat
                /\ done.action = saves[i].action
                /\ IF saves[i].action = "attach"
                   THEN /\ host'.calls = host.calls + 1
                        /\ host'.annotatedImageUrl = flat
                        /\ host'.annotationNote = saves[i].description
                   ELSE host' = host]_vars

\* a download and then an attach with an empty caption, both of a surface
\* with a rectangle on it
C19_Witness ==
    /\ Len(exported) = 2
    /\ exported[1].action = "download"
    /\ exported[2].action = "attach"
    /\ exported[2].caption = ""
    /\ exported[1].surface # EmptySurface
    /\ exported[1].out = exported[2].out
    /\ host = [annotatedImageUrl |-> exported[2].out, annotationNote |-> "", calls |-> 1]

\* C20: every save request made on a loaded canvas eventually ends, either
\* by delivering the export or by a failure shown to the user: while the
\* canvas stays mounted, the n-th request leads to n requests that have
\* ended.
C20_SaveEnds ==
    \A n \in 1..MaxSaves :
        (requests >= n) ~> (~mounted \/ Len(exported) + FailuresShown >= n)

\* C21: every pointer-up and every pointer-leave returns the tool state
\* machine to idle: after it neither the drawing flag nor the panning flag
\* is set, whatever presses of the left and the middle button came before.
C21_PointerUpIdles ==
    [][PtrUp \/ PtrLeave => ~isDrawing' /\ ~isPanning']_vars

\* the sample points one preview of a shape tool paints, from a to b
PreviewCells(t, a, b) ==
    IF t = "line" THEN StrokeCells(<<<<a, b>>>>) \cup THeadCells(a, b)
    ELSE IF t = "arrow" THEN StrokeCells(<<<<a, b>>>>) \cup ArrowHeadCells(a, b)
    ELSE IF t = "rect" THEN RectCells(a, b)
    ELSE CircleCells(a, b)

\* C22: during a line, arrow, rectangle or circle gesture, after every
\* pointer move the surface is the snapshot taken at pointer-down with exactly
\* one preview shape on it, from the start point to the pointer's position
\* (nothing of earlier previews), and no step inside the gesture changes the
\* history or the redo stack.
C22_ShapePreview ==
    /\ [](lastEvent.op = "draw" /\ tool \in ShapeTools =>
            \A c \in Cells :
                surface[c] = IF c \in PreviewCells(tool, startPos, lastEvent.at)
                                THEN [kind |-> "stroke", color |-> color]
                                ELSE snapshot[c])
    /\ [][isDrawing /\ isDrawing' /\ tool \in ShapeTools =>
            UNCHANGED <<history, redoStack>>]_vars

\* a second move of a gesture over an earlier drawing: the first preview
\* painted a pixel that the snapshot does not have and the second preview
\* does not cover, and it is gone
C22_Witness ==
    /\ lastEvent.op = "draw" /\ tool \in ShapeTools
    /\ lastEvent.from # startPos /\ lastEvent.from # lastEvent.at
    /\ snapshot # EmptySurface
    /\ \E c \in Cells :
          /\ c \in PreviewCells(tool, startPos, lastEvent.from)
          /\ c \notin PreviewCells(tool, startPos, lastEvent.at)
          /\ snapshot[c] = Transparent
          /\ surface[c] = Transparent

\* C23: during a pen or highlighter gesture each pointer move to a new
\* position strokes the segment from the previous pointer position (the
\* pointer-down position on the first move) to the current one: the sample
\* points on that segment are painted after the move.
C23_FreehandSegment ==
    (/\ lastEvent.op = "draw"
     /\ tool \in {"pen", "highlighter"}
     /\ lastEvent.from # lastEvent.at)
    => \A c \in StrokeCells(<<<<lastEvent.from, lastEvent.at>>>>) :
            surface[c] # Transparent

\* C23, the part that holds: a move of a freehand gesture does not put the
\* snapshot back, so nothing that was on the surface is removed by it.
C23_FreehandKeepsSurface ==
    [][GestMove /\ tool \in {"pen", "highlighter"} =>
          (\A c \in Cells : surface[c] # Transparent => surface'[c] # Transparent)]_vars

\* C24: a pen, highlighter, eraser, arrow, rectangle or circle gesture pushes
\* exactly one history snapshot, at its pointer-up: the pointer-up appends the
\* surface as it is (dropping the oldest entry beyond 20) and empties the redo
\* stack, and no step inside the gesture changes the history, however many
\* pointer moves there were, none included.
C24_OneSnapshotPerGesture ==
    /\ [][GestUp /\ tool # "line" =>
            /\ ~isDrawing'
            /\ history' = IF Len(history) < MaxHistory
                              THEN Append(history, surface)
                              ELSE Append(Tail(history), surface)
            /\ redoStack' = <<>>]_vars
    /\ [][isDrawing /\ isDrawing' => UNCHANGED history]_vars
    /\ [][~isDrawing /\ isDrawing' => UNCHANGED history]_vars

\* a rectangle gesture without any move has been completed: its snapshot
\* equals the one before it
C24_Witness ==
    /\ tool = "rect" /\ ~isDrawing /\ lastEvent.saved
    /\ Len(history) = 2
    /\ history[2] = history[1]

\* C25: the pointer-up of a ruler gesture opens the text overlay, filled
\* with the measurement of the segment ((length / 38) to one decimal, " cm")
\* and anchored at the midpoint of the segment in world coordinates, and
\* leaves the history and the redo stack as they are; while that overlay is
\* open the history changes only in the step that closes it.
C25_RulerUpOpensOverlay ==
    /\ [][\A c \in Cells :
            tool = "line" /\ isDrawing /\ handleMouseUp(ScreenOf(CellPos[c])) =>
                /\ textInput'.isVisible
                /\ textInput'.value = IF CellPos[c] = startPos THEN "0.0 cm" ELSE "5.9 cm"
                /\ textInput'.x = RDiv(RAdd(startPos.x, CellPos[c].x), R(2))
                /\ textInput'.y = RDiv(RAdd(startPos.y, CellPos[c].y), R(2))
                /\ ~isDrawing'
                /\ UNCHANGED <<history, redoStack, surface>>]_vars
    /\ [][textInput.isVisible /\ textInput.byRuler /\ history' # history =>
            ~textInput'.isVisible]_vars

\* the overlay of a ruler dragged from (100,100) to (300,200), over an
\* earlier drawing
C25_Witness ==
    /\ textInput = [isVisible |-> TRUE, x |-> R(200), y |-> R(150),
                    value |-> "5.9 cm", byRuler |-> TRUE]
    /\ tool = "line" /\ ~isDrawing
    /\ Len(history) = 2
    /\ surface # history[2]

\* C26: committing an overlay whose text is not blank draws that text at the
\* overlay's world anchor, pushes exactly one history snapshot (the surface
\* with the text) and closes the overlay; committing an overlay the text tool
\* opened with empty or whitespace-only text closes it and leaves the surface,
\* the history and the redo stack as they were.
C26_TextCommit ==
    /\ [][ctx /\ textInput.isVisible /\ ~Blank(textInput.value)
             /\ (KeyEnter \/ Blur \/ MouseDown) =>
            /\ surface' = [c \in Cells |->
                    IF CellPos[c].x = textInput.x /\ CellPos[c].y = textInput.y
                        THEN [kind |-> "text", color |-> color,
                              value |-> textInput.value]
                        ELSE surface[c]]
            /\ history' = IF Len(history) < MaxHistory
                              THEN Append(history, surface')
                              ELSE Append(Tail(history), surface')
            /\ ~textInput'.isVisible]_vars
    /\ [][ctx /\ textInput.isVisible /\ ~textInput.byRuler /\ Blank(textInput.value)
             /\ (KeyEnter \/ Blur \/ MouseDown) =>
            /\ ~textInput'.isVisible
            /\ UNCHANGED <<surface, history, redoStack>>]_vars

\* the text QSE has been committed at (100,100) and is the top of history
C26_Witness ==
    /\ ~textInput.isVisible /\ lastEvent.saved
    /\ surface[1] = [kind |-> "text", color |-> color, value |-> "QSE"]
    /\ Len(history) = 2
    /\ history[2] = surface
    /\ history[1] = EmptySurface

\* C27: in every reachable state the history stack and the redo stack
\* together hold at most 20 snapshots.
C27_StacksBounded == Len(history) + Len(redoStack) <= MaxHistory

\* twenty snapshots shared between the two stacks after the oldest was
\* dropped and some commits were undone
C27_Witness ==
    /\ evicted
    /\ Len(history) + Len(redoStack) = MaxHistory
    /\ Len(redoStack) >= 2

\* C28: whenever the loaded canvas is quiescent, with no gesture in progress
\* and no text overlay open, the surface is identical to the top entry of the
\* history stack.
C28_QuiescentSurfaceIsTop ==
    ctx /\ ~isDrawing /\ ~textInput.isVisible =>
        /\ history # <<>>
        /\ surface = history[Len(history)]

\* quiescent after drawing, a second commit and an undo: a drawing is on the
\* surface and a snapshot waits on the redo stack
C28_Witness ==
    /\ ctx /\ ~isDrawing /\ ~textInput.isVisible
    /\ lastEvent.op = "undo"
    /\ surface # EmptySurface
    /\ redoStack # <<>>
    /\ surface # redoStack[1]
    /\ surface = history[Len(history)]

\* C29: a pointer-down that arrives while a drawing gesture is in progress
\* replaces neither the start point of the gesture nor the snapshot taken
\* before it.
C29_DownKeepsGesture ==
    [][isDrawing /\ PtrDown => UNCHANGED <<startPos, snapshot>>]_vars

\* C30: an export is composed from the surface as it was when the save was
\* requested, whatever was drawn, undone, redone or cleared before the save
\* completed, and it carries the caption captured with that request.
C30_ExportOfRequestedSurface ==
    [][\A i \in 1..Len(saves) : saveImageLoaded(i) =>
            LET done == exported'[Len(exported')]
            IN  /\ done.caption = saves[i].description
                /\ \A c \in Cells :
                      done.out.pixels[c] =
                          IF saves[i].requested[c] = Transparent
                              THEN ImagePixel(c)
                              ELSE [kind |-> "over", top |-> saves[i].requested[c],
                                    bottom |-> ImagePixel(c)]]_vars

\* C30, the part that holds: the caption handed over is the one of the
\* request, also when it was edited before the save completed.
C30_CaptionOfRequest ==
    [][\A i \in 1..Len(saves) : saveImageLoaded(i) =>
            exported'[Len(exported')].caption = saves[i].description]_vars

====
